---- MODULE Spec2Model ----
(***************************************************************************)
(* TaoWidget: the chain connection manager (app/subtensor_manager.py) and  *)
(* the block sampler (app/routers.py).                                     *)
(*                                                                         *)
(* Spec        the SubtensorManager driven by a caller that opens acquire  *)
(*             scopes one after the other, whose body returns, raises or   *)
(*             is cancelled, and that calls close() and finally tears the  *)
(*             Manager down.                                               *)
(*             get_subtensor is an @asynccontextmanager generator; its     *)
(*             positions (pc) are the awaits and yields of the generator.  *)
(* SamplerSpec one request of the balance, stake, combined or chart         *)
(*             endpoint on a yielded connection.                           *)
(* ShortenSpec shorten_address applied to one address.                     *)
(* RequestSpec one request from the construction of its Manager to the     *)
(*             Manager's teardown: the handler's scope is the Manager's    *)
(*             acquire scope, the handler's outcome ends it.               *)
(***************************************************************************)
EXTENDS Integers, Sequences, FiniteSets, TLC

\* Bound: connection objects one Manager constructs in a run.
MaxConn == 5

\* Bound: the `days` parameter of a request.
MaxDays == 3
MaxRequestDays == 1

\* Bound: blocks the chain head gains while one request samples.
MaxHeadAdvance == 1

\* Bound: ticks the clock gains while one request samples.
MaxClockAdvance == 1

\* routers.py line 19.
BLOCKS_PER_DAY == 7200

\* The 1e9 of lines 38 and 57.
PlanckPerTao == 1000000000

\* Resolution of the clock: ticks in a calendar day.
TicksPerDay == 2

\* datetime.now() when the request starts: the last tick of a day.
Now0 == 10 * TicksPerDay + 1

Endpoints == {"balance", "stake", "combined", "chart"}

\* Heights get_block_number() answers when the request starts.
ChainHeads == {10000, 1000000}

\* result["data"]["free"] of a storage query.
FreeAmounts == {2 * PlanckPerTao}

\* result.value of a runtime call that returns stake entries.
StakeLists == {<<PlanckPerTao, 0, PlanckPerTao>>}

\* The chain call of a balance sample that raises, if any.
BalanceFails == {"none", "get_block_hash", "query", "get_block_number"}

\* The chain call of a stake sample that raises, if any.
StakeFails == {"none", "get_block_hash", "runtime_call", "get_block_number"}

\* Bound: length of the run of non-alphanumeric characters at either end
\* of an address.
MaxJunk == 2

\* Bound: length of an address between those runs.
MaxBody == 14

\* [a-zA-Z0-9] of line 24: the characters the addresses are made of, all
\* different so that a slice is told from any other.
AlnumChars == <<"a", "b", "c", "d", "e", "f", "g", "h", "J", "K", "L", "M",
                "1", "2", "3", "4">>

\* Python's None, for the stored reference and the generator's local.
None == 0

Conns == 1..MaxConn

VARIABLES
    _substrate,     \* SubtensorManager._substrate: None or a connection
    substrate,      \* the local `substrate` of the running get_subtensor
    pc,             \* position of the caller / the generator
    entered,        \* the scope's __aenter__ has returned a connection
    pending,        \* exception in flight inside the generator
    yielded,        \* connection handed to the caller's body
    outcome,        \* what the last finished `async with` gave the caller
    constructed,    \* number of AsyncSubstrateInterface objects constructed
    created,        \* connections whose initialize() succeeded
    closeCalls,     \* per connection: invocations of its close routine
    closeResult,    \* last close routine call: ok, swallowed or raised
    lastFailed,     \* connection in use when the latest body raised
    firstCreate,    \* this scope's creation at line 29: none, ok, fail
    reCreate,       \* this scope's creation at line 40: none, ok, fail
    closeRun,       \* consecutive SubtensorManager.close() calls (capped)
    bodyError,      \* this scope's body raised an error
    cancelled,      \* the caller's task was cancelled at some await
    endpoint,       \* the handler serving the request
    days,           \* its `days` parameter
    spc,            \* position of the handler
    head,           \* the chain's current height
    now,            \* the clock, in ticks
    current_block,  \* the handler's local current_block
    fetched,        \* current_block has been fetched
    blocks,         \* the handler's local blocks, as a list
    tasks,          \* the balance tasks handed to gather
    order,          \* gather: indices of its tasks in completion order
    reordered,      \* the tasks of the last gather completed out of order
    valid_balance_results,  \* valid_results / valid_balance_results
    stake_results,  \* results / stake_results of the stake loop
    idx,            \* position of the stake loop in blocks
    response,       \* the list the handler returns
    balOk,          \* blocks whose balance sample succeeded
    stkOk,          \* blocks whose stake sample succeeded
    balAttempts,    \* per position in blocks: balance samples started
    stkAttempts,    \* per position in blocks: stake samples started
    stkInFlight,    \* positions in blocks whose stake query is awaited
    stkIssued,      \* heights of the stake queries, in the order issued
    status,         \* get_chart: HTTP status of its response, 0 before
    rendered,       \* get_chart: times the figure was drawn
    address,        \* shorten_address: its argument, a list of characters
    shortened,      \* shorten_address: its return value
    apc             \* shorten_address: input or done

mvars == <<_substrate, substrate, pc, entered, pending, yielded, outcome,
           constructed, created, closeCalls, closeResult, lastFailed,
           firstCreate, reCreate, closeRun, bodyError, cancelled>>

svars == <<endpoint, days, spc, head, now, current_block, fetched, blocks,
           tasks, order, reordered, valid_balance_results, stake_results,
           idx, response, balOk, stkOk, balAttempts, stkAttempts,
           stkInFlight, stkIssued, status, rendered>>

avars == <<address, shortened, apc>>

vars == <<mvars, svars, avars>>

\* SubtensorManager.__init__
ManagerInit ==
    /\ _substrate = None
    /\ substrate = None
    /\ pc = "idle"
    /\ entered = FALSE
    /\ pending = "none"
    /\ yielded = None
    /\ outcome = "none"
    /\ constructed = 0
    /\ created = {}
    /\ closeCalls = [c \in Conns |-> 0]
    /\ closeResult = "none"
    /\ lastFailed = None
    /\ firstCreate = "none"
    /\ reCreate = "none"
    /\ closeRun = 0
    /\ bodyError = FALSE
    /\ cancelled = FALSE

\* `try: await conn.close() / except: pass`: the close routine of conn is
\* invoked; what it raises is swallowed.
SwallowedCloseResult(closeOk) == IF closeOk THEN "ok" ELSE "swallowed"

\* Entry of the `except Exception` handler (line 34): a stored connection is
\* closed first, otherwise the handler goes straight to the recreation.
ExceptTarget == IF _substrate # None THEN "closeStale" ELSE "create2"

\* The caller's body is running on the yielded connection.
InBody == pc \in {"yield1", "yield2"} /\ entered

\* async with manager.get_subtensor(): lines 26-31 up to the first await or
\* yield.
Acquire ==
    /\ pc = "idle"
    /\ constructed + 2 <= MaxConn
    /\ substrate' = (IF _substrate = None THEN None ELSE _substrate)
    /\ pc' = (IF _substrate = None THEN "create1" ELSE "yield1")
    /\ entered' = (_substrate # None)
    /\ yielded' = _substrate
    /\ pending' = "none"
    /\ firstCreate' = "none"
    /\ reCreate' = "none"
    /\ closeRun' = 0
    /\ outcome' = "none"
    /\ UNCHANGED <<_substrate, constructed, created, closeCalls,
                   closeResult, lastFailed>>
    /\ bodyError' = FALSE
    /\ UNCHANGED <<svars, avars, cancelled>>

\* Variant of CreateFirst without the handler: a failed first creation leaves
\* the scope at once.
CreateFirstNoRecreate(ok) ==
    /\ pc = "create1"
    /\ constructed' = constructed + 1
    /\ IF ok
       THEN /\ created' = created \cup {constructed + 1}
            /\ _substrate' = constructed + 1
            /\ substrate' = constructed + 1
            /\ yielded' = constructed + 1
            /\ entered' = TRUE
            /\ pc' = "yield1"
            /\ pending' = "none"
            /\ firstCreate' = "ok"
       ELSE /\ pc' = "finally"
            /\ pending' = "CreateErr"
            /\ firstCreate' = "fail"
            /\ UNCHANGED <<created, _substrate, substrate, yielded, entered>>
    /\ UNCHANGED <<outcome, closeCalls, closeResult, lastFailed, reCreate,
                   closeRun>>
    /\ UNCHANGED <<svars, avars, bodyError, cancelled>>

\* Line 29: self._substrate = await self._create_substrate(), with
\* _create_substrate (lines 13-21) constructing an object and awaiting its
\* initialize().  A failure is caught by `except Exception` (line 32).
CreateFirst(ok) ==
    /\ pc = "create1"
    /\ constructed' = constructed + 1
    /\ IF ok
       THEN /\ created' = created \cup {constructed + 1}
            /\ _substrate' = constructed + 1
            /\ substrate' = constructed + 1
            /\ yielded' = constructed + 1
            /\ entered' = TRUE
            /\ pc' = "yield1"
            /\ pending' = "none"
            /\ firstCreate' = "ok"
       ELSE /\ pc' = ExceptTarget
            /\ pending' = "CreateErr"
            /\ firstCreate' = "fail"
            /\ UNCHANGED <<created, _substrate, substrate, yielded, entered>>
    /\ UNCHANGED <<outcome, closeCalls, closeResult, lastFailed, reCreate,
                   closeRun>>
    /\ UNCHANGED <<svars, avars, bodyError, cancelled>>

\* The body of the scope finishes without an error: __aexit__ resumes the
\* generator after its yield and the finally clause runs.
BodyOk ==
    /\ pc \in {"yield1", "yield2"}
    /\ entered
    /\ pc' = "finally"
    /\ pending' = "none"
    /\ lastFailed' = None
    /\ UNCHANGED <<_substrate, substrate, entered, yielded, outcome,
                   constructed, created, closeCalls, closeResult,
                   firstCreate, reCreate, closeRun>>
    /\ UNCHANGED <<svars, avars, bodyError, cancelled>>

\* Variant of BodyRaise whose handler ends the generator normally: the
\* context manager then suppresses E.
BodyRaiseSuppressed ==
    /\ pc \in {"yield1", "yield2"}
    /\ entered
    /\ pc' = "finally"
    /\ pending' = "none"
    /\ lastFailed' = yielded
    /\ UNCHANGED <<_substrate, substrate, entered, yielded, outcome,
                   constructed, created, closeCalls, closeResult,
                   firstCreate, reCreate, closeRun>>
    /\ bodyError' = TRUE
    /\ UNCHANGED <<svars, avars, cancelled>>

\* The body raises E: __aexit__ throws it into the generator at its yield.
\* At line 31 the yield is inside the try, `except Exception` catches E.
\* At line 41 the yield is inside the handler, E leaves it and only the
\* finally clause runs.
BodyRaise ==
    /\ pc \in {"yield1", "yield2"}
    /\ entered
    /\ pc' = (IF pc = "yield1" THEN ExceptTarget ELSE "finally")
    /\ pending' = "E"
    /\ lastFailed' = yielded
    /\ UNCHANGED <<_substrate, substrate, entered, yielded, outcome,
                   constructed, created, closeCalls, closeResult,
                   firstCreate, reCreate, closeRun>>
    /\ bodyError' = TRUE
    /\ UNCHANGED <<svars, avars, cancelled>>

\* The caller's task is cancelled while the body awaits: CancelledError is
\* thrown into the generator at its yield.  It is no Exception, so the
\* handler of line 32 does not catch it and only the finally clause runs.
BodyCancel ==
    /\ pc \in {"yield1", "yield2"}
    /\ entered
    /\ pc' = "finally"
    /\ pending' = "Cancelled"
    /\ cancelled' = TRUE
    /\ UNCHANGED <<_substrate, substrate, entered, yielded, outcome,
                   constructed, created, closeCalls, closeResult, lastFailed,
                   firstCreate, reCreate, closeRun, bodyError>>
    /\ UNCHANGED <<svars, avars>>

\* The caller's task is cancelled while _create_substrate awaits
\* initialize() (line 20), at line 29 or at line 40: the object of line 14
\* is constructed, CancelledError leaves _create_substrate before the
\* object is returned, passes `except Exception` and the finally clause
\* runs.  (A CancelledError raised inside an awaited close() is swallowed
\* by the bare except like any other error: closeOk = FALSE.)
CancelInitialize ==
    /\ pc \in {"create1", "create2"}
    /\ constructed' = constructed + 1
    /\ pc' = "finally"
    /\ pending' = "Cancelled"
    /\ cancelled' = TRUE
    /\ firstCreate' = (IF pc = "create1" THEN "cancel" ELSE firstCreate)
    /\ reCreate' = (IF pc = "create2" THEN "cancel" ELSE reCreate)
    /\ UNCHANGED <<_substrate, substrate, entered, yielded, outcome, created,
                   closeCalls, closeResult, lastFailed, closeRun, bodyError>>
    /\ UNCHANGED <<svars, avars>>

\* Variant of CloseStale that drops the reference without closing.
CloseStaleNoClose(closeOk) ==
    /\ pc = "closeStale"
    /\ _substrate' = None
    /\ pc' = "create2"
    /\ UNCHANGED <<substrate, entered, pending, yielded, outcome,
                   constructed, created, closeCalls, closeResult, lastFailed,
                   firstCreate, reCreate, closeRun>>
    /\ UNCHANGED <<svars, avars, bodyError, cancelled>>

\* Lines 34-39: close the stored connection, swallow what close raises,
\* clear the reference.
CloseStale(closeOk) ==
    /\ pc = "closeStale"
    /\ closeCalls' = [closeCalls EXCEPT ![_substrate] = @ + 1]
    /\ closeResult' = SwallowedCloseResult(closeOk)
    /\ _substrate' = None
    /\ pc' = "create2"
    /\ UNCHANGED <<substrate, entered, pending, yielded, outcome,
                   constructed, created, lastFailed, firstCreate, reCreate,
                   closeRun>>
    /\ UNCHANGED <<svars, avars, bodyError, cancelled>>

\* Lines 40-41: recreate and yield.  During __aenter__ the yield hands the
\* fresh connection to the caller.  After athrow() the yield makes __aexit__
\* raise RuntimeError("generator didn't stop after athrow()") and the
\* generator is closed at that yield, which runs its finally clause.  A
\* failed recreation leaves the handler as the scope's error.
CreateSecond(ok) ==
    /\ pc = "create2"
    /\ constructed' = constructed + 1
    /\ IF ok
       THEN /\ created' = created \cup {constructed + 1}
            /\ _substrate' = constructed + 1
            /\ reCreate' = "ok"
            /\ IF entered
               THEN /\ pc' = "finally"
                    /\ pending' = "RuntimeError"
                    /\ UNCHANGED <<yielded, entered>>
               ELSE /\ pc' = "yield2"
                    /\ pending' = "none"
                    /\ yielded' = constructed + 1
                    /\ entered' = TRUE
       ELSE /\ pc' = "finally"
            /\ pending' = "CreateErr"
            /\ reCreate' = "fail"
            /\ UNCHANGED <<created, _substrate, yielded, entered>>
    /\ UNCHANGED <<substrate, outcome, closeCalls, closeResult, lastFailed,
                   firstCreate, closeRun>>
    /\ UNCHANGED <<svars, avars, bodyError, cancelled>>

\* Lines 42-48: `if substrate is not self._substrate: await
\* substrate.close()` under a bare except (None.close() raises
\* AttributeError, swallowed too); then the scope ends for the caller with
\* the error in flight, if any.
Finally(closeOk) ==
    /\ pc = "finally"
    /\ IF substrate # _substrate /\ substrate # None
       THEN /\ closeCalls' = [closeCalls EXCEPT ![substrate] = @ + 1]
            /\ closeResult' = SwallowedCloseResult(closeOk)
       ELSE UNCHANGED <<closeCalls, closeResult>>
    /\ outcome' = (IF pending = "none" THEN "ok" ELSE pending)
    /\ pending' = "none"
    /\ pc' = "idle"
    /\ entered' = FALSE
    /\ substrate' = None
    /\ UNCHANGED <<_substrate, yielded, constructed, created, lastFailed,
                   firstCreate, reCreate, closeRun>>
    /\ UNCHANGED <<svars, avars, bodyError, cancelled>>

\* Variant of close without the bare except: what the close routine raises
\* leaves close() before the reference is cleared.
closeNoExcept(closeOk) ==
    IF _substrate # None
    THEN /\ closeCalls' = [closeCalls EXCEPT ![_substrate] = @ + 1]
         /\ closeResult' = (IF closeOk THEN "ok" ELSE "raised")
         /\ _substrate' = (IF closeOk THEN None ELSE _substrate)
    ELSE UNCHANGED <<closeCalls, closeResult, _substrate>>

\* Variant of close that clears the reference without closing.
closeOnlyClears(closeOk) ==
    /\ _substrate' = None
    /\ UNCHANGED <<closeCalls, closeResult>>

\* SubtensorManager.close (lines 50-57): the effect on the Manager.
close(closeOk) ==
    IF _substrate # None
    THEN /\ closeCalls' = [closeCalls EXCEPT ![_substrate] = @ + 1]
         /\ closeResult' = SwallowedCloseResult(closeOk)
         /\ _substrate' = None
    ELSE UNCHANGED <<closeCalls, closeResult, _substrate>>

\* The caller calls manager.close() between scopes.
ManagerClose(closeOk) ==
    /\ pc = "idle"
    /\ close(closeOk)
    /\ closeRun' = (IF closeRun < 2 THEN closeRun + 1 ELSE 2)
    /\ UNCHANGED <<substrate, pc, entered, pending, yielded, outcome,
                   constructed, created, lastFailed, firstCreate, reCreate>>
    /\ UNCHANGED <<svars, avars, bodyError, cancelled>>

\* get_subtensor_manager (lines 60-65): the finally clause of the Manager's
\* lifecycle scope awaits manager.close().
Teardown(closeOk) ==
    /\ pc = "idle"
    /\ close(closeOk)
    /\ pc' = "torn"
    /\ closeRun' = 0
    /\ UNCHANGED <<substrate, entered, pending, yielded, outcome,
                   constructed, created, lastFailed, firstCreate, reCreate>>
    /\ UNCHANGED <<svars, avars, bodyError, cancelled>>

(***************************************************************************)
(* Block sampler (app/routers.py)                                          *)
(*                                                                         *)
(* Time is counted in ticks, TicksPerDay of them to a calendar day; a      *)
(* datetime is a tick count.  Amounts are integers, Planck on the chain    *)
(* and whole Tao after the conversion.  A sample carries, besides the      *)
(* block, timestamp and value of the code's tuple, the reading of          *)
(* datetime.now() it was built from (field now), kept for the claims.      *)
(***************************************************************************)

(* One sample is one step: the chain's answers to its awaits are the step's *)
(* inputs (which call raised, the amounts, how far the head and the clock  *)
(* moved meanwhile).                                                       *)

\* range(start, stop, step) as a list.
RECURSIVE PyRange(_, _, _)
PyRange(start, stop, step) ==
    IF (step > 0 /\ start < stop) \/ (step < 0 /\ start > stop)
    THEN <<start>> \o PyRange(start + step, stop, step)
    ELSE <<>>

\* Variant of Blocks that counts upwards from the oldest block.
BlocksAscending(cb, d) ==
    PyRange(cb - d * BLOCKS_PER_DAY, cb, BLOCKS_PER_DAY)

\* Lines 69 and 73 (99/103, 128/132): total_blocks and blocks.
Blocks(cb, d) ==
    PyRange(cb, cb - d * BLOCKS_PER_DAY, 0 - BLOCKS_PER_DAY)

\* amount / 1e9 (lines 38 and 57); the amounts drawn are whole Tao.
ToTao(planck) == planck \div PlanckPerTao

\* datetime.now() - timedelta(days=(head - block) // BLOCKS_PER_DAY)
\* (lines 39 and 59).
Timestamp(nw, hd, block) ==
    nw - ((hd - block) \div BLOCKS_PER_DAY) * TicksPerDay

\* timestamp.replace(hour=0, minute=0, second=0, microsecond=0)
Date(ts) == (ts \div TicksPerDay) * TicksPerDay

NoSample == [block |-> 0, timestamp |-> 0, value |-> 0, now |-> 0]

\* _get_balance_at_block (lines 30-40): ok with the tuple, or the exception
\* of the call that failed.
_get_balance_at_block(block, fail, free, hd, nw) ==
    IF fail = "none"
    THEN [ok |-> TRUE,
          res |-> [block |-> block, timestamp |-> Timestamp(nw, hd, block),
                   value |-> ToTao(free), now |-> nw]]
    ELSE [ok |-> FALSE, res |-> NoSample]

\* sum(stake['stake'] for stake in result.value if stake['stake'] > 0)
RECURSIVE SumPositive(_)
SumPositive(stakes) ==
    IF stakes = <<>> THEN 0
    ELSE (IF Head(stakes) > 0 THEN Head(stakes) ELSE 0)
         + SumPositive(Tail(stakes))

\* _get_stake_at_block (lines 43-60).  A result without a value returns
\* early with datetime.now() and 0.0, before get_block_number is awaited.
_get_stake_at_block(block, fail, hasValue, stakes, hd, nw) ==
    IF fail \in {"get_block_hash", "runtime_call"}
    THEN [ok |-> FALSE, res |-> NoSample]
    ELSE IF ~hasValue
    THEN [ok |-> TRUE,
          res |-> [block |-> block, timestamp |-> nw, value |-> 0,
                   now |-> nw]]
    ELSE IF fail = "get_block_number"
    THEN [ok |-> FALSE, res |-> NoSample]
    ELSE [ok |-> TRUE,
          res |-> [block |-> block, timestamp |-> Timestamp(nw, hd, block),
                   value |-> ToTao(SumPositive(stakes)), now |-> nw]]

PendingTask == [state |-> "pending", ok |-> FALSE, res |-> NoSample]

\* Variant of gather that lists the results as the tasks complete.
gatherAsCompleted(ts, ord) ==
    [raised |-> FALSE, results |-> [k \in 1..Len(ts) |-> ts[ord[k]]]]

\* Variant of gather without return_exceptions: a task's exception leaves
\* gather.
gatherRaising(ts, ord) ==
    [raised |-> \E i \in 1..Len(ts) : ~ts[i].ok,
     results |-> [i \in 1..Len(ts) |-> ts[i]]]

\* asyncio.gather(*tasks, return_exceptions=True) (lines 79, 136): once all
\* tasks are done, their results or exceptions in the order of the tasks.
gather(ts, ord) ==
    [raised |-> FALSE, results |-> [i \in 1..Len(ts) |-> ts[i]]]

\* [result for result in results if not isinstance(result, Exception)]
RECURSIVE ValidResults(_)
ValidResults(results) ==
    IF results = <<>> THEN <<>>
    ELSE (IF Head(results).ok THEN <<Head(results).res>> ELSE <<>>)
         \o ValidResults(Tail(results))

\* Lines 156-163: one pass over a series, daily_data[date][field] = value,
\* with the defaultdict's {"balance": 0.0, "stake": 0.0} for a new date.
RECURSIVE ApplySamples(_, _, _)
ApplySamples(daily, series, field) ==
    IF series = <<>> THEN daily
    ELSE LET r == Head(series)
             date == Date(r.timestamp)
             cur == IF date \in DOMAIN daily THEN daily[date]
                    ELSE [balance |-> 0, stake |-> 0]
             upd == IF field = "balance"
                    THEN [cur EXCEPT !.balance = r.value]
                    ELSE [cur EXCEPT !.stake = r.value]
         IN ApplySamples((date :> upd) @@ daily, Tail(series), field)

\* Variant of SortedSeq that lists the latest date first.
RECURSIVE SortedSeqDescending(_)
SortedSeqDescending(S) ==
    IF S = {} THEN <<>>
    ELSE LET m == CHOOSE x \in S : \A y \in S : x >= y
         IN <<m>> \o SortedSeqDescending(S \ {m})

\* sorted(...) over the dates of daily_data.
RECURSIVE SortedSeq(_)
SortedSeq(S) ==
    IF S = {} THEN <<>>
    ELSE LET m == CHOOSE x \in S : \A y \in S : x <= y
         IN <<m>> \o SortedSeq(S \ {m})

\* Variant of MergeDaily that emits only the dates of the balance series.
MergeDailyBalanceDates(bal, stk) ==
    LET daily == ApplySamples(ApplySamples(<<>>, bal, "balance"),
                              stk, "stake")
        dates == SortedSeq({Date(bal[i].timestamp) : i \in 1..Len(bal)})
    IN [k \in 1..Len(dates) |->
           [date |-> dates[k], balance |-> daily[dates[k]].balance,
            stake |-> daily[dates[k]].stake]]

\* Lines 152-173 of get_combined_data: group by date, emit sorted.
MergeDaily(bal, stk) ==
    LET daily == ApplySamples(ApplySamples(<<>>, bal, "balance"),
                              stk, "stake")
        dates == SortedSeq(DOMAIN daily)
    IN [k \in 1..Len(dates) |->
           [date |-> dates[k], balance |-> daily[dates[k]].balance,
            stake |-> daily[dates[k]].stake]]

\* Variant of get_chart that draws the figure before it looks at the data.
get_chartDrawFirst(data) ==
    IF Len(data) = 0 THEN [status |-> 404, rendered |-> 1]
    ELSE [status |-> 200, rendered |-> 1]

\* get_chart (lines 183-306): not-found for an empty series, otherwise the
\* figure is drawn and returned as an image.
get_chart(data) ==
    IF Len(data) = 0 THEN [status |-> 404, rendered |-> 0]
    ELSE [status |-> 200, rendered |-> 1]

\* Line 183: get_chart goes on when get_combined_data has returned.
ChartTail(nxt) ==
    IF endpoint = "chart" /\ nxt.spc = "done" THEN get_chart(nxt.response)
    ELSE [status |-> 0, rendered |-> 0]

\* The end of the stake loop: lines 115-119, or lines 152-173.
FinishStake(bal, stk) ==
    [spc |-> "done", valid |-> bal,
     response |-> IF endpoint = "stake" THEN stk ELSE MergeDaily(bal, stk)]

\* The stake loop starts (lines 105-107, 142-144); over no block it ends
\* at once.
EnterStake(bal, blks) ==
    IF Len(blks) = 0 THEN FinishStake(bal, <<>>)
    ELSE [spc |-> "stake", valid |-> bal, response |-> <<>>]

\* What follows gather: lines 81-90, or lines 137-144.
AfterGather(g, blks) ==
    IF g.raised THEN [spc |-> "failed", valid |-> <<>>, response |-> <<>>]
    ELSE IF endpoint = "balance"
    THEN [spc |-> "done", valid |-> ValidResults(g.results),
          response |-> ValidResults(g.results)]
    ELSE EnterStake(ValidResults(g.results), blks)

\* What follows the current_block fetch: the tasks of lines 76/135 and their
\* gather, or the stake loop of get_historical_stake.
AfterFetch(blks) ==
    IF endpoint = "stake" THEN EnterStake(<<>>, blks)
    ELSE IF Len(blks) = 0 THEN AfterGather(gather(<<>>, <<>>), blks)
    ELSE [spc |-> "balance", valid |-> <<>>, response |-> <<>>]

\* Lines 71-76 (101-103, 130-135): current_block = await
\* substrate.get_block_number(); an error leaves the scope's body.
FetchCurrentBlock(ok) ==
    /\ InBody
    /\ spc = "start"
    /\ IF ok
       THEN LET blks == Blocks(head, days)
                nxt == AfterFetch(blks)
            IN /\ current_block' = head
               /\ fetched' = TRUE
               /\ blocks' = blks
               /\ tasks' = (IF endpoint = "stake" THEN <<>>
                            ELSE [i \in 1..Len(blks) |-> PendingTask])
               /\ spc' = nxt.spc
               /\ valid_balance_results' = nxt.valid
               /\ response' = nxt.response
               /\ status' = ChartTail(nxt).status
               /\ rendered' = ChartTail(nxt).rendered
       ELSE /\ spc' = "failed"
            /\ UNCHANGED <<current_block, fetched, blocks, tasks,
                           valid_balance_results, response, status,
                           rendered>>
    /\ UNCHANGED <<endpoint, days, head, now, order, reordered,
                   stake_results, idx, balOk, stkOk, balAttempts,
                   stkAttempts, stkInFlight, stkIssued>>
    /\ UNCHANGED <<mvars, avars>>

\* One task of the balance fan-out runs to its end (lines 30-40), in any
\* order among the pending tasks; with the last one gather returns and the
\* handler goes on without a further await.
BalanceTaskDone(i, fail, free, adv, tick) ==
    /\ InBody
    /\ spc = "balance"
    /\ i \in 1..Len(tasks)
    /\ tasks[i].state = "pending"
    /\ head + adv <= current_block + MaxHeadAdvance
    /\ now + tick <= Now0 + MaxClockAdvance
    /\ LET r == _get_balance_at_block(blocks[i], fail, free, head + adv,
                                      now + tick)
           ts == [tasks EXCEPT ![i] = [state |-> "done", ok |-> r.ok,
                                       res |-> r.res]]
           ord == Append(order, i)
           allDone == \A j \in 1..Len(ts) : ts[j].state = "done"
           nxt == AfterGather(gather(ts, ord), blocks)
       IN /\ tasks' = ts
          /\ order' = (IF allDone THEN <<>> ELSE ord)
          /\ reordered' = (allDone /\ \E k \in 1..Len(ord) : ord[k] # k)
          /\ balOk' = (IF r.ok THEN balOk \cup {blocks[i]} ELSE balOk)
          /\ balAttempts' = [balAttempts EXCEPT ![i] = @ + 1]
          /\ IF allDone
             THEN /\ spc' = nxt.spc
                  /\ valid_balance_results' = nxt.valid
                  /\ response' = nxt.response
                  /\ status' = ChartTail(nxt).status
                  /\ rendered' = ChartTail(nxt).rendered
             ELSE UNCHANGED <<spc, valid_balance_results, response, status,
                              rendered>>
    /\ head' = head + adv
    /\ now' = now + tick
    /\ UNCHANGED <<endpoint, days, current_block, fetched, blocks,
                   stake_results, idx, stkOk, stkAttempts, stkInFlight,
                   stkIssued>>
    /\ UNCHANGED <<mvars, avars>>

\* Variant of StakeIssue that starts the next query while one is awaited.
StakeIssueEager ==
    /\ InBody
    /\ spc = "stake"
    /\ Len(stkIssued) < Len(blocks)
    /\ stkInFlight' = stkInFlight \cup {Len(stkIssued) + 1}
    /\ stkIssued' = Append(stkIssued, blocks[Len(stkIssued) + 1])
    /\ stkAttempts' = [stkAttempts EXCEPT ![Len(stkIssued) + 1] = @ + 1]
    /\ UNCHANGED <<endpoint, days, spc, head, now, current_block, fetched,
                   blocks, tasks, order, reordered, valid_balance_results,
                   stake_results, idx, response, balOk, stkOk, balAttempts,
                   status, rendered>>
    /\ UNCHANGED <<mvars, avars>>

\* The stake loop reaches `await _get_stake_at_block(...)` for its block
\* (lines 107-109, 144-146): the query is started and the handler waits.
StakeIssue ==
    /\ InBody
    /\ spc = "stake"
    /\ stkInFlight = {}
    /\ idx <= Len(blocks)
    /\ stkInFlight' = {idx}
    /\ stkIssued' = Append(stkIssued, blocks[idx])
    /\ stkAttempts' = [stkAttempts EXCEPT ![idx] = @ + 1]
    /\ UNCHANGED <<endpoint, days, spc, head, now, current_block, fetched,
                   blocks, tasks, order, reordered, valid_balance_results,
                   stake_results, idx, response, balOk, stkOk, balAttempts,
                   status, rendered>>
    /\ UNCHANGED <<mvars, avars>>

\* The awaited stake query ends (lines 109-113, 146-150): its result is
\* appended, or its exception printed and the block skipped; after the last
\* block the handler returns without a further await.
StakeStep(fail, hasValue, stakes, adv, tick) ==
    /\ InBody
    /\ spc = "stake"
    /\ idx \in stkInFlight
    /\ head + adv <= current_block + MaxHeadAdvance
    /\ now + tick <= Now0 + MaxClockAdvance
    /\ LET r == _get_stake_at_block(blocks[idx], fail, hasValue, stakes,
                                    head + adv, now + tick)
           stk == IF r.ok THEN Append(stake_results, r.res)
                  ELSE stake_results
           nxt == FinishStake(valid_balance_results, stk)
       IN /\ stake_results' = stk
          /\ stkOk' = (IF r.ok THEN stkOk \cup {blocks[idx]} ELSE stkOk)
          /\ stkInFlight' = stkInFlight \ {idx}
          /\ idx' = idx + 1
          /\ IF idx = Len(blocks)
             THEN /\ spc' = nxt.spc
                  /\ response' = nxt.response
                  /\ status' = ChartTail(nxt).status
                  /\ rendered' = ChartTail(nxt).rendered
             ELSE UNCHANGED <<spc, response, status, rendered>>
    /\ head' = head + adv
    /\ now' = now + tick
    /\ UNCHANGED <<endpoint, days, current_block, fetched, blocks, tasks,
                   order, reordered, valid_balance_results, balOk,
                   balAttempts, stkAttempts, stkIssued>>
    /\ UNCHANGED <<mvars, avars>>

\* No address is being shortened.
AddressIdle ==
    /\ address = <<>>
    /\ shortened = <<>>
    /\ apc = "idle"

\* No request is running.
SamplerIdle ==
    /\ endpoint = "none"
    /\ days = 0
    /\ spc = "idle"
    /\ head = 0
    /\ now = Now0
    /\ current_block = 0
    /\ fetched = FALSE
    /\ blocks = <<>>
    /\ tasks = <<>>
    /\ order = <<>>
    /\ reordered = FALSE
    /\ valid_balance_results = <<>>
    /\ stake_results = <<>>
    /\ idx = 1
    /\ response = <<>>
    /\ balOk = {}
    /\ stkOk = {}
    /\ balAttempts = [i \in 1..MaxDays |-> 0]
    /\ stkAttempts = [i \in 1..MaxDays |-> 0]
    /\ stkInFlight = {}
    /\ stkIssued = <<>>
    /\ status = 0
    /\ rendered = 0

\* A request enters its handler's scope: the handler's parameters and the
\* chain's head are the inputs.
SamplerInit ==
    /\ endpoint \in Endpoints
    /\ days \in 0..MaxDays
    /\ spc = "start"
    /\ head \in ChainHeads
    /\ now = Now0
    /\ current_block = 0
    /\ fetched = FALSE
    /\ blocks = <<>>
    /\ tasks = <<>>
    /\ order = <<>>
    /\ reordered = FALSE
    /\ valid_balance_results = <<>>
    /\ stake_results = <<>>
    /\ idx = 1
    /\ response = <<>>
    /\ balOk = {}
    /\ stkOk = {}
    /\ balAttempts = [i \in 1..MaxDays |-> 0]
    /\ stkAttempts = [i \in 1..MaxDays |-> 0]
    /\ stkInFlight = {}
    /\ stkIssued = <<>>
    /\ status = 0
    /\ rendered = 0

\* The Manager of a request whose scope was entered on a first connection
\* (Acquire, then CreateFirst(TRUE)).
ScopeEntered ==
    /\ _substrate = 1
    /\ substrate = 1
    /\ pc = "yield1"
    /\ entered = TRUE
    /\ pending = "none"
    /\ yielded = 1
    /\ outcome = "none"
    /\ constructed = 1
    /\ created = {1}
    /\ closeCalls = [c \in Conns |-> 0]
    /\ closeResult = "none"
    /\ lastFailed = None
    /\ firstCreate = "ok"
    /\ reCreate = "none"
    /\ closeRun = 0
    /\ bodyError = FALSE
    /\ cancelled = FALSE

SamplerStart == ScopeEntered /\ SamplerInit /\ AddressIdle

SamplerNext ==
    \/ \E ok \in BOOLEAN : FetchCurrentBlock(ok)
    \/ \E i \in 1..MaxDays, fail \in BalanceFails, free \in FreeAmounts,
          adv \in 0..1, tick \in 0..1 :
          BalanceTaskDone(i, fail, free, adv, tick)
    \/ StakeIssue
    \/ \E fail \in StakeFails, hasValue \in BOOLEAN, stakes \in StakeLists,
          adv \in 0..1, tick \in 0..1 :
          StakeStep(fail, hasValue, stakes, adv, tick)

SamplerSpec == SamplerStart /\ [][SamplerNext]_vars

(***************************************************************************)
(* shorten_address (app/routers.py, lines 22-27)                           *)
(***************************************************************************)

IsAlnum(c) == \E i \in 1..Len(AlnumChars) : AlnumChars[i] = c

\* A run of n non-alphanumeric characters.
JunkRun(n) == [i \in 1..n |-> "-"]

\* n characters, alphanumeric but for position k when 1 < k < n.
Body(n, k) ==
    [i \in 1..n |->
        IF i = k /\ 1 < k /\ k < n THEN "_"
        ELSE AlnumChars[((i - 1) % Len(AlnumChars)) + 1]]

\* The addresses shorten_address is applied to.
Addresses ==
    {JunkRun(l) \o Body(n, k) \o JunkRun(t) :
        l \in 0..MaxJunk, n \in 0..MaxBody, k \in 0..MaxBody, t \in 0..MaxJunk}

\* re.sub of the alternative ^[^a-zA-Z0-9]+ (line 24).
RECURSIVE StripLeading(_)
StripLeading(a) ==
    IF Len(a) > 0 /\ ~IsAlnum(Head(a)) THEN StripLeading(Tail(a)) ELSE a

\* re.sub of the alternative [^a-zA-Z0-9]+$ (line 24).
RECURSIVE StripTrailing(_)
StripTrailing(a) ==
    IF Len(a) > 0 /\ ~IsAlnum(a[Len(a)])
    THEN StripTrailing(SubSeq(a, 1, Len(a) - 1)) ELSE a

\* Variant of shorten_address that abbreviates from 12 characters on.
shorten_addressFrom12(a) ==
    LET clean_address == StripTrailing(StripLeading(a))
    IN IF Len(clean_address) < 12 THEN clean_address
       ELSE SubSeq(clean_address, 1, 6) \o <<".", ".", ".">>
            \o SubSeq(clean_address, Len(clean_address) - 5,
                      Len(clean_address))

\* shorten_address (lines 22-27).
shorten_address(a) ==
    LET clean_address == StripTrailing(StripLeading(a))
    IN IF Len(clean_address) <= 12 THEN clean_address
       ELSE SubSeq(clean_address, 1, 6) \o <<".", ".", ".">>
            \o SubSeq(clean_address, Len(clean_address) - 5,
                      Len(clean_address))

\* The call of shorten_address.
Shorten ==
    /\ apc = "input"
    /\ shortened' = shorten_address(address)
    /\ apc' = "done"
    /\ UNCHANGED <<address, mvars, svars>>

ShortenInit ==
    /\ address \in Addresses
    /\ shortened = <<>>
    /\ apc = "input"

ShortenStart == ManagerInit /\ SamplerIdle /\ ShortenInit

ShortenSpec == ShortenStart /\ [][Shorten]_vars

Init == ManagerInit /\ SamplerIdle /\ AddressIdle

Next ==
    \/ Acquire
    \/ \E ok \in BOOLEAN : CreateFirst(ok)
    \/ BodyOk
    \/ BodyRaise
    \/ BodyCancel
    \/ CancelInitialize
    \/ \E closeOk \in BOOLEAN : CloseStale(closeOk)
    \/ \E ok \in BOOLEAN : CreateSecond(ok)
    \/ \E closeOk \in BOOLEAN : Finally(closeOk)
    \/ \E closeOk \in BOOLEAN : ManagerClose(closeOk)
    \/ \E closeOk \in BOOLEAN : Teardown(closeOk)

Spec == Init /\ [][Next]_vars

(***************************************************************************)
(* One request: get_subtensor_manager builds the Manager (lines 60-62),    *)
(* the handler opens its acquire scope and samples inside it, the          *)
(* handler's return or error ends the scope, and get_subtensor_manager     *)
(* closes the Manager (lines 63-65).                                       *)
(***************************************************************************)
RequestInit ==
    /\ ManagerInit
    /\ SamplerInit
    /\ days <= MaxRequestDays
    /\ AddressIdle

\* async with manager.get_subtensor() as subtensor: routers.py 71, 101, 131
HandlerEnters ==
    /\ spc = "start"
    /\ outcome = "none"
    /\ Acquire

\* The handler leaves the scope with its response.
HandlerReturns ==
    /\ spc = "done"
    /\ BodyOk

\* The error of get_block_number() leaves the handler's body (routers.py
\* 72, 102, 132 have no handler around them).
HandlerRaises ==
    /\ spc = "failed"
    /\ BodyRaise

\* finally: await manager.close()  (subtensor_manager.py 63-65)
RequestTeardown(closeOk) ==
    /\ outcome # "none"
    /\ Teardown(closeOk)

RequestNext ==
    \/ HandlerEnters
    \/ \E ok \in BOOLEAN : CreateFirst(ok)
    \/ \E ok \in BOOLEAN : FetchCurrentBlock(ok)
    \/ \E i \in 1..MaxDays, fail \in BalanceFails, free \in FreeAmounts,
          adv \in 0..1, tick \in 0..1 :
          BalanceTaskDone(i, fail, free, adv, tick)
    \/ StakeIssue
    \/ \E fail \in StakeFails, hasValue \in BOOLEAN, stakes \in StakeLists,
          adv \in 0..1, tick \in 0..1 :
          StakeStep(fail, hasValue, stakes, adv, tick)
    \/ HandlerReturns
    \/ HandlerRaises
    \/ \E closeOk \in BOOLEAN : CloseStale(closeOk)
    \/ \E ok \in BOOLEAN : CreateSecond(ok)
    \/ \E closeOk \in BOOLEAN : Finally(closeOk)
    \/ \E closeOk \in BOOLEAN : RequestTeardown(closeOk)

RequestSpec == RequestInit /\ [][RequestNext]_vars

(***************************************************************************)
(* Chain Connection Manager                                                *)
(***************************************************************************)

\* Connections created and not yet closed by anyone.
Held == {c \in created : closeCalls[c] = 0}

\* C1: after a scope whose body raised while using connection c, the body
\* of the next scope runs on a connection different from c.
NextAcquireYieldsFresh ==
    (InBody /\ lastFailed # None) => yielded # lastFailed

\* The scope's body raised on an established connection and the handler's
\* recovery (lines 33-41) ran.
RecoveredFromBodyFailure ==
    lastFailed # None /\ firstCreate # "fail" /\ reCreate # "none"

\* C2: once a scope whose body raised on the established connection c has
\* ended, the close routine of c has been invoked exactly once over the
\* handler and the finally clause together, and no error of that close
\* reached the caller.
PriorClosedExactlyOnce ==
    (pc = "idle" /\ RecoveredFromBodyFailure)
        => (closeCalls[lastFailed] = 1 /\ closeResult # "raised")

\* C3: at every point at most one successfully created connection has not
\* had its close routine invoked.
AtMostOneConnectionHeld == Cardinality(Held) <= 1

\* C3 witness: a body failed, its connection was closed and replaced.
ReplacedAfterFailure ==
    /\ lastFailed # None
    /\ Cardinality(created) >= 2
    /\ Cardinality(Held) = 1

\* C4: close() never lets an error out and leaves no stored connection; a
\* close() that follows a close() invokes no close routine and changes
\* nothing of the Manager.
CloseIdempotentTotal ==
    [][closeRun' >= 1 =>
         /\ _substrate' = None
         /\ closeResult' # "raised"
         /\ closeRun >= 1 =>
               /\ closeCalls' = closeCalls
               /\ _substrate' = _substrate
               /\ created' = created
               /\ constructed' = constructed
               /\ closeResult' = closeResult]_vars

\* C4 witness: close() was called twice in a row on a Manager whose
\* connection's close routine raised.
ClosedTwiceAfterRaisingClose ==
    /\ closeRun = 2
    /\ closeResult = "swallowed"
    /\ \E c \in created : closeCalls[c] >= 1

\* C5: if the first creation fails and the recreation succeeds the caller
\* gets the fresh connection and no creation error; if both fail the caller
\* gets the creation error and the Manager stores nothing; a creation error
\* reaches the caller only after a failed recreation.
RecreationDecidesEntry ==
    /\ (firstCreate = "fail" /\ reCreate = "ok") =>
           /\ entered \/ pc \in {"idle", "torn"}
           /\ yielded = constructed
           /\ yielded \in created
           /\ pending # "CreateErr"
           /\ outcome # "CreateErr"
    /\ (firstCreate = "fail" /\ reCreate = "fail") =>
           /\ ~entered
           /\ _substrate = None
           /\ pc = "finally" => pending = "CreateErr"
           /\ pc \in {"idle", "torn"} => outcome = "CreateErr"
    /\ outcome = "CreateErr" => reCreate = "fail"

\* C5 witness: the first creation failed, the recreation succeeded and the
\* caller's body runs on the recreated connection.
EnteredOnRecreated ==
    /\ firstCreate = "fail"
    /\ reCreate = "ok"
    /\ pc = "yield2"
    /\ yielded = _substrate

\* C6: after the teardown the Manager stores no connection and every
\* connection it created has had its close routine invoked.
TeardownClosesAll ==
    pc = "torn" => (_substrate = None /\ \A c \in created : closeCalls[c] >= 1)

\* C6 witness: torn down after a mid-use failure, with a live connection
\* stored until the teardown.
TornDownAfterFailure ==
    /\ pc = "torn"
    /\ lastFailed # None
    /\ Cardinality(created) >= 2
    /\ \E c \in created : closeCalls[c] = 1

(***************************************************************************)
(* Block Sampler                                                           *)
(***************************************************************************)

BlocksOf(series) == {series[i].block : i \in 1..Len(series)}

\* The series lists each successful sample once and nothing else.
ExactlyTheSuccessful(series, okBlocks) ==
    BlocksOf(series) = okBlocks /\ Len(series) = Cardinality(okBlocks)

StrictlyDescending(series) ==
    \A i, j \in 1..Len(series) : i < j => series[i].block > series[j].block

\* The samples taken so far, of both metrics.
Samples ==
    {valid_balance_results[i] : i \in 1..Len(valid_balance_results)}
        \cup {stake_results[i] : i \in 1..Len(stake_results)}

\* C7: once current_block is fetched no failure of a sample fails the
\* operation; the returned series holds an entry for block b exactly when
\* the sample for b succeeded, and no block is sampled twice.
SampleFailuresTolerated ==
    /\ fetched => spc # "failed"
    /\ spc = "done" =>
          /\ endpoint \in {"balance", "combined", "chart"} =>
                 ExactlyTheSuccessful(valid_balance_results, balOk)
          /\ endpoint \in {"stake", "combined", "chart"} =>
                 ExactlyTheSuccessful(stake_results, stkOk)
          /\ endpoint = "balance" => response = valid_balance_results
          /\ endpoint = "stake" => response = stake_results
    /\ \A i \in 1..MaxDays : balAttempts[i] <= 1 /\ stkAttempts[i] <= 1

\* C7 witness: a balance request returned with some samples failed and some
\* succeeded.
ReturnedPartialBalance ==
    /\ spc = "done"
    /\ endpoint = "balance"
    /\ Len(response) >= 1
    /\ Len(response) < days
    /\ \E i \in 1..Len(tasks) : ~tasks[i].ok

\* C8: for days >= 1 a balance or stake series has at most `days` entries,
\* in strictly descending (hence distinct) block order, whatever samples
\* were dropped and in whatever order the balance tasks completed.
SeriesBoundedDescending ==
    days >= 1 =>
        /\ Len(valid_balance_results) <= days
        /\ StrictlyDescending(valid_balance_results)
        /\ Len(stake_results) <= days
        /\ StrictlyDescending(stake_results)
        /\ (spc = "done" /\ endpoint \in {"balance", "stake"}) =>
               (Len(response) <= days /\ StrictlyDescending(response))

\* C8 witness: a balance series of several entries was returned after the
\* tasks completed out of order and one sample was dropped.
ReturnedAfterReordering ==
    /\ spc = "done"
    /\ endpoint = "balance"
    /\ reordered
    /\ Len(response) >= 2
    /\ Len(response) < days

\* C9: for days >= 1 the blocks sampled are current_block - i*BLOCKS_PER_DAY
\* for i = 0..days-1, most recent first, none at or below current_block -
\* days*BLOCKS_PER_DAY, and each is sampled once per metric of the request.
SampledHeights ==
    (days >= 1 /\ fetched) =>
        /\ Len(blocks) = days
        /\ \A i \in 1..Len(blocks) :
               /\ blocks[i] = current_block - (i - 1) * BLOCKS_PER_DAY
               /\ blocks[i] > current_block - days * BLOCKS_PER_DAY
        /\ spc = "done" =>
               \A i \in 1..days :
                   /\ endpoint \in {"balance", "combined", "chart"} =>
                          balAttempts[i] = 1
                   /\ endpoint \in {"stake", "combined", "chart"} =>
                          stkAttempts[i] = 1

\* C9 witness: a request over several days has sampled all its blocks.
SampledSeveralDays ==
    /\ spc = "done"
    /\ days >= 2
    /\ Len(blocks) >= 2
    /\ blocks[1] = current_block

\* C10: every returned sample for block b has a timestamp whose day offset
\* from the now it was built from is (current_block - b) // BLOCKS_PER_DAY,
\* with current_block the height fetched at the start.
TimestampOffsetFromStart ==
    spc = "done" =>
        \A r \in Samples :
            r.now - r.timestamp =
                ((current_block - r.block) \div BLOCKS_PER_DAY) * TicksPerDay

(***************************************************************************)
(* Series Aggregator and chart                                             *)
(***************************************************************************)

\* The request returned a merged daily series.
MergedReturned == spc = "done" /\ endpoint \in {"combined", "chart"}

\* The day buckets of the samples of a series.
DatesOf(series) == {Date(series[i].timestamp) : i \in 1..Len(series)}

\* C11: the merge keeps every day that has a balance or a stake sample; a
\* day with a balance sample only has stake 0, a day with a stake sample
\* only has balance 0.
MissingMetricDefaultsToZero ==
    MergedReturned =>
        /\ \A d \in DatesOf(valid_balance_results) \cup DatesOf(stake_results) :
               \E k \in 1..Len(response) : response[k].date = d
        /\ \A k \in 1..Len(response) :
               /\ response[k].date \notin DatesOf(stake_results) =>
                      response[k].stake = 0
               /\ response[k].date \notin DatesOf(valid_balance_results) =>
                      response[k].balance = 0

\* C11 witness: days = 1, the balance sample failed and the stake sample
\* succeeded with a stake; the merged series has its one day with balance 0.
OnlyStakeSampleMerged ==
    /\ spc = "done"
    /\ endpoint = "combined"
    /\ days = 1
    /\ valid_balance_results = <<>>
    /\ Len(stake_results) = 1
    /\ Len(response) = 1
    /\ response[1].balance = 0
    /\ response[1].stake > 0

\* C12: the merged series is in strictly ascending date order (so holds at
\* most one entry per date), its dates are exactly the days of the samples
\* of either series, and it is no longer than the samples are many.
MergedSortedOnePerDay ==
    MergedReturned =>
        /\ \A i, j \in 1..Len(response) :
               i < j => response[i].date < response[j].date
        /\ {response[k].date : k \in 1..Len(response)} =
               DatesOf(valid_balance_results) \cup DatesOf(stake_results)
        /\ Len(response) <= Len(valid_balance_results) + Len(stake_results)

\* C12 witness: several days were merged, two samples sharing a day.
MergedSeveralDays ==
    /\ MergedReturned
    /\ Len(response) >= 2
    /\ Len(response) < Len(valid_balance_results) + Len(stake_results)

\* C14: the chart endpoint answers 404 without drawing exactly when the
\* merged series is empty, that is when no sample of either metric
\* succeeded; otherwise it draws once and answers with the image.
ChartNotFoundIffNoSample ==
    (spc = "done" /\ endpoint = "chart") =>
        /\ status \in {404, 200}
        /\ status = 404 <=> Len(response) = 0
        /\ Len(response) = 0 <=> (balOk = {} /\ stkOk = {})
        /\ status = 404 => rendered = 0
        /\ status = 200 => rendered = 1

\* C14 witness: every sample of a chart request over some days failed.
ChartOfFailedSamples ==
    /\ spc = "done"
    /\ endpoint = "chart"
    /\ days >= 1
    /\ status = 404
    /\ \A i \in 1..days : balAttempts[i] = 1 /\ stkAttempts[i] = 1

\* C17: in the stake loop at most one query is awaited at a time, the
\* queries are issued in strictly descending block order, a query is issued
\* only when the one before it has ended, and a failed query skips its
\* block only: every block of the request is queried.
StakeLoopSequential ==
    /\ Cardinality(stkInFlight) <= 1
    /\ \A i, j \in 1..Len(stkIssued) : i < j => stkIssued[i] > stkIssued[j]
    /\ Len(stkIssued) <= Len(blocks)
    /\ \A i \in 1..Len(stkIssued) : stkIssued[i] = blocks[i]
    /\ stkInFlight # {} => (stkInFlight = {Len(stkIssued)} /\ idx = Len(stkIssued))
    /\ stkInFlight = {} => idx = Len(stkIssued) + 1
    /\ (spc = "done" /\ endpoint # "balance") => stkIssued = blocks

\* C17 witness: the query of the first block failed and a later block was
\* queried and sampled.
StakeLoopWentOnAfterFailure ==
    /\ spc = "done"
    /\ endpoint = "stake"
    /\ Len(blocks) >= 2
    /\ blocks[1] \notin stkOk
    /\ blocks[2] \in stkOk

\* C19: in the merged series the balance sample and the stake sample of one
\* block fall into the same day bucket, and no two stake samples share a
\* bucket, so that the sample of an older block never overwrites the stake
\* of a more recent day.  Stated for the requests served within one
\* calendar day.
SameBlockSameBucket ==
    (MergedReturned /\ Date(now) = Date(Now0)) =>
        /\ \A i \in 1..Len(valid_balance_results), j \in 1..Len(stake_results) :
               valid_balance_results[i].block = stake_results[j].block =>
                   Date(valid_balance_results[i].timestamp) =
                       Date(stake_results[j].timestamp)
        /\ \A i, j \in 1..Len(stake_results) :
               i < j => Date(stake_results[i].timestamp) #
                            Date(stake_results[j].timestamp)

(***************************************************************************)
(* Address shortening                                                      *)
(***************************************************************************)

\* Positions of the alphanumeric characters of the address.
AlnumPositions == {i \in 1..Len(address) : IsAlnum(address[i])}

\* The address from its first to its last alphanumeric character.
Core ==
    IF AlnumPositions = {} THEN <<>>
    ELSE SubSeq(address,
                CHOOSE i \in AlnumPositions : \A j \in AlnumPositions : i <= j,
                CHOOSE i \in AlnumPositions : \A j \in AlnumPositions : i >= j)

\* r is the first 6 characters of a, three dots and the last 6 of a.
IsAbbreviationOf(r, a) ==
    /\ Len(r) = 15
    /\ \A i \in 1..6 : r[i] = a[i] /\ r[9 + i] = a[Len(a) - 6 + i]
    /\ \A i \in 7..9 : r[i] = "."

\* C15 as claimed: every address of length <= 12 is returned unchanged,
\* every longer one as its first 6 characters, "..." and its last 6.
ShortenKeepsShortAddresses ==
    apc = "done" =>
        /\ Len(address) <= 12 => shortened = address
        /\ Len(address) > 12 => IsAbbreviationOf(shortened, address)

\* C15 as amended: the address is first stripped of its leading and its
\* trailing run of non-alphanumeric characters; what is left is returned
\* unchanged when it has at most 12 characters and abbreviated otherwise.
\* An address that starts and ends alphanumeric is treated as claimed.
ShortenStripsThenAbbreviates ==
    apc = "done" =>
        /\ Len(Core) <= 12 => shortened = Core
        /\ Len(Core) > 12 => IsAbbreviationOf(shortened, Core)
        /\ (Len(address) > 0 /\ IsAlnum(address[1])
                /\ IsAlnum(address[Len(address)])) =>
               /\ Len(address) <= 12 => shortened = address
               /\ Len(address) > 12 => IsAbbreviationOf(shortened, address)

\* C15 witness: an address of more than 12 characters that starts with a
\* non-alphanumeric character was returned as its 12 inner characters.
ShortAddressStripped ==
    /\ apc = "done"
    /\ Len(address) > 12
    /\ ~IsAlnum(address[1])
    /\ Len(shortened) = 12

(***************************************************************************)
(* Claims about the scope's failure handling                               *)
(***************************************************************************)
\* An error is on its way out of the scope or has left it.
ErrorOutcomes == {"E", "RuntimeError", "CreateErr"}

NoRecoveryInFailedScope ==
    [][(bodyError /\ pc \in {"closeStale", "create2"}) =>
          /\ constructed' = constructed
          /\ closeCalls' = closeCalls
          /\ _substrate' = _substrate]_vars

\* C18: after the teardown of a Manager whose task was cancelled at some
\* await, every connection object the Manager constructed has had close()
\* called on it.
CancellationLeaksNothing ==
    (pc = "torn" /\ cancelled) =>
        \A c \in 1..constructed : closeCalls[c] >= 1

\* C20: when the body of a scope raised E and the task was not cancelled
\* during the recovery, what leaves the scope is E, or the creation error if
\* the recreation failed.
BodyErrorReachesCaller ==
    (bodyError /\ pc \in {"idle", "torn"} /\ outcome # "Cancelled") =>
        \/ outcome = "E"
        \/ outcome = "CreateErr" /\ reCreate = "fail"

====
